---- MODULE Spec2Model ----
(***************************************************************************)
(* Snapshot and lifecycle orchestration of the LXD daemon:                 *)
(*   lxd/container_snapshot.go  (snapshot listing, naming, creation)       *)
(*   lxd/containers.go          (cascade delete, shutdown)                 *)
(* Names are sequences of one-character strings so that prefix matching,   *)
(* decimal formatting/parsing and SQL's string MAX are computed as the     *)
(* code computes them.                                                     *)
(***************************************************************************)
EXTENDS Integers, Sequences, FiniteSets, TLC

VARIABLES
    containers,     \* the containers table: set of rows
    nextId,         \* next autoincrement id of the containers table
    running,        \* runtime state of each regular container
    snapDirs,       \* names whose snapshot location exists on disk
    stateDirs,      \* names whose state directory exists on disk
    tasks,          \* snapshot-creation tasks (containerSnapshotsPost)
    listed,         \* result of the last containerSnapshotsGet
    nres,           \* result of the last nextSnapshot call of the namer harness
    casc,           \* containerDeleteSnapshots: position and locals
    parentDir,      \* does containers/<cname> exist on disk
    fsKind,         \* backing filesystem of the containers directory
    containers0,    \* history: table when the cascade was first requested
    snapDirs0,      \* history: snapshot locations at that time
    sd,             \* containersShutdown: position and locals
    gpc,            \* per-container shutdown goroutine position
    wg,             \* sync.WaitGroup counter
    hist,           \* history of containersShutdown per container
    rs,             \* containersRestart: position, locals and history
    watch,          \* containerWatchEphemeral goroutine and its history
    rn,             \* snapshot rename requests and tasks (snapshotPost)
    ex              \* ExportToTar: position, tar writer and archive

vars == <<containers, nextId, running, snapDirs, stateDirs, tasks, listed,
          nres, casc, parentDir, fsKind, containers0, snapDirs0,
          sd, gpc, wg, hist, rs, watch, rn, ex>>

worldVars == <<containers, nextId, running, snapDirs, stateDirs>>
snapVars == <<tasks, listed>>
cascVars == <<casc, parentDir, fsKind, containers0, snapDirs0>>
shutVars == <<sd, gpc, wg, hist>>
lifeVars == <<rs, watch, rn, ex>>

(***************************************************************************)
(* Bounds                                                                  *)
(***************************************************************************)
MaxK == 11          \* namer harness: snapshot numbers drawn from 0..MaxK
MaxTasks == 2       \* snapshot-creation requests accepted
MaxSnaps == 2       \* cascade: snapshots of the deleted parent
MaxRuns == 2        \* cascade: runs of containerDeleteSnapshots (1 + re-runs)
NumRegular == 3     \* shutdown: regular containers in the table
NumWatched == 2     \* ephemeral watch: regular containers in the table
MaxListed == 2      \* listing: snapshots the parent may have
MaxRecursion == 2   \* listing: largest recursion level requested
MaxRenames == 2     \* rename: requests accepted
NumLinks == 2       \* export: names of the hardlinked file under rootfs

(***************************************************************************)
(* Strings                                                                 *)
(***************************************************************************)
Digits == <<"0", "1", "2", "3", "4", "5", "6", "7", "8", "9">>

IsDigit(ch) == \E d \in 1..10 : Digits[d] = ch

DigitVal(ch) == (CHOOSE d \in 1..10 : Digits[d] = ch) - 1

\* byte value of a character, the order SQLite's BINARY collation compares by
Ord(ch) ==
    IF IsDigit(ch) THEN 48 + DigitVal(ch)
    ELSE CASE ch = "/" -> 47
           [] ch = "a" -> 97
           [] ch = "b" -> 98
           [] ch = "c" -> 99
           [] ch = "d" -> 100
           [] ch = "e" -> 101
           [] ch = "n" -> 110
           [] ch = "p" -> 112
           [] ch = "s" -> 115
           [] ch = "w" -> 119
           [] ch = "x" -> 120

RECURSIVE StrLess(_, _)
StrLess(a, b) ==
    IF b = <<>> THEN FALSE
    ELSE IF a = <<>> THEN TRUE
    ELSE IF Ord(Head(a)) # Ord(Head(b)) THEN Ord(Head(a)) < Ord(Head(b))
    ELSE StrLess(Tail(a), Tail(b))

\* SQL MAX() over a non-empty set of TEXT values
SqlMax(S) == CHOOSE m \in S : \A x \in S : x = m \/ StrLess(x, m)

\* SQL SUBSTR(s, 1, n)
SUBSTR(s, n) == SubSeq(s, 1, IF Len(s) < n THEN Len(s) ELSE n)

\* fmt.Sprintf("%d", n) for n >= 0
RECURSIVE FormatInt(_)
FormatInt(n) ==
    IF n < 10 THEN <<Digits[n + 1]>>
    ELSE FormatInt(n \div 10) \o <<Digits[(n % 10) + 1]>>

\* fmt.Sscanf(s, "%d", &num): the value of the leading run of digits, and
\* -1 when there is none (count # 1).  Names here carry no sign or blank.
RECURSIVE ScanDigits(_, _)
ScanDigits(s, acc) ==
    IF s = <<>> \/ ~IsDigit(Head(s)) THEN acc
    ELSE ScanDigits(Tail(s), acc * 10 + DigitVal(Head(s)))

Sscanf(s) == IF s = <<>> \/ ~IsDigit(Head(s)) THEN -1 ELSE ScanDigits(s, 0)

(***************************************************************************)
(* The containers table                                                    *)
(***************************************************************************)
cTypeRegular == 0
cTypeSnapshot == 1

SnapshotDelimiter == <<"/">>

snap == <<"s", "n", "a", "p">>
web == <<"w", "e", "b">>
webx == <<"w", "e", "b", "x">>

Row(id, name, ctype) ==
    [id |-> id, name |-> name, ctype |-> ctype, power_state |-> 0, ephemeral |-> FALSE]

NameExists(name) == \E r \in containers : r.name = name

\* SELECT name FROM containers WHERE type=? AND SUBSTR(name,1,?)=?
SnapshotsWithPrefix(prefix) ==
    {r \in containers : r.ctype = cTypeSnapshot /\ SUBSTR(r.name, Len(prefix)) = prefix}

(***************************************************************************)
(* Snapshot Namer: nextSnapshot                                            *)
(***************************************************************************)
\* the body of the loop over the rows of the query
RECURSIVE nextSnapshotLoop(_, _, _)
nextSnapshotLoop(results, length, max) ==
    IF results = <<>> THEN max
    ELSE LET numstr == Head(results)
             substr == SubSeq(numstr, length + 1, Len(numstr))
             num == Sscanf(substr)
         IN  IF Len(numstr) <= length THEN nextSnapshotLoop(Tail(results), length, max)
             ELSE IF num = -1 THEN nextSnapshotLoop(Tail(results), length, max)
             ELSE IF num >= max THEN nextSnapshotLoop(Tail(results), length, num + 1)
             ELSE nextSnapshotLoop(Tail(results), length, max)

\* SELECT MAX(name) ...: one row holding the greatest name as a string; over
\* no rows the aggregate is NULL, which does not scan into a string, so the
\* query fails and nextSnapshot returns 0.
nextSnapshot(name) ==
    LET base == name \o SnapshotDelimiter \o snap
        length == Len(base)
        rows == {r.name : r \in SnapshotsWithPrefix(base)}
    IN  IF rows = {} THEN 0
        ELSE nextSnapshotLoop(<<SqlMax(rows)>>, length, 0)

SnapName(parent, k) == parent \o SnapshotDelimiter \o snap \o FormatInt(k)

\* the numbers K such that <parent>/snapK is a snapshot row
SnapNumbers(parent) ==
    {k \in 0..(MaxK + 2) : \E r \in containers : r.ctype = cTypeSnapshot /\ r.name = SnapName(parent, k)}

SetMax(S) == CHOOSE m \in S : \A x \in S : x <= m

(***************************************************************************)
(* Namer harness: the table holds web and exactly the snapshots web/snapK  *)
(* for K in a set drawn at Init, plus one snapshot of another container.   *)
(***************************************************************************)
IdleCasc == [pc |-> "idle", cname |-> <<>>, results |-> <<>>, ids |-> <<>>, i |-> 0,
             backingFs |-> "", err |-> "none", fault |-> FALSE, runs |-> 0, cut |-> FALSE]
IdleSd == [pc |-> "idle", results |-> <<>>, cur |-> <<>>, err |-> "none"]
IdleRs == [pc |-> "idle", result |-> <<>>, cur |-> <<>>, err |-> "none",
           ps0 |-> <<>>, starts |-> <<>>, startFailed |-> {}, run0 |-> <<>>]
IdleWatch == [pc |-> "idle", result |-> <<>>, err |-> "none", w |-> <<>>]
IdleRn == [resp |-> "none", tasks |-> <<>>]
\* tar.NewWriter(w): no error, no byte owed, nothing written
NewWriter == [err |-> FALSE, nb |-> 0, archive |-> <<>>]
IdleEx == [pc |-> "idle", snap |-> "", privileged |-> TRUE, hasMeta |-> FALSE,
           hasTemplates |-> FALSE, owner |-> 0, walk |-> <<>>, tw |-> NewWriter,
           linkmap |-> <<>>, err |-> "none", failed |-> {}]
NoListing == [parent |-> <<>>, recursion |-> 0, status |-> "none", ids |-> {},
              names |-> {}, result |-> <<>>]

\* the subsystems a specification does not exercise stay idle
LifeIdle ==
    /\ rs = IdleRs
    /\ watch = IdleWatch
    /\ rn = IdleRn
    /\ ex = IdleEx

NamerInit ==
    /\ \E K \in SUBSET (0..MaxK) :
          containers = {Row(1, web, cTypeRegular), Row(2, webx, cTypeRegular),
                        Row(3, SnapName(webx, 7), cTypeSnapshot)}
                       \cup {Row(10 + k, SnapName(web, k), cTypeSnapshot) : k \in K}
    /\ nextId = 100
    /\ running = [c \in {web, webx} |-> FALSE]
    /\ snapDirs = {r.name : r \in {c \in containers : c.ctype = cTypeSnapshot}}
    /\ stateDirs = {}
    /\ tasks = <<>>
    /\ listed = NoListing
    /\ nres = -1
    /\ casc = IdleCasc
    /\ parentDir = TRUE
    /\ fsKind = "dir"
    /\ containers0 = {}
    /\ snapDirs0 = {}
    /\ sd = IdleSd
    /\ gpc = <<>>
    /\ wg = 0
    /\ hist = <<>>
    /\ LifeIdle

NamerCall ==
    /\ nres = -1
    /\ nres' = nextSnapshot(web)
    /\ UNCHANGED <<worldVars, snapVars, cascVars, shutVars, lifeVars>>

NamerNext == NamerCall

SpecNamer == NamerInit /\ [][NamerNext]_vars

\* C4: for existing snapshots web/snapK, K in a finite set, nextSnapshot
\* returns max(K)+1 (0 for the empty set), and the synthesized name snapN
\* is not the name of an existing snapshot, whatever the digit counts.
NamerReturnsMaxPlusOne ==
    nres # -1 =>
        /\ nres = (IF SnapNumbers(web) = {} THEN 0 ELSE SetMax(SnapNumbers(web)) + 1)
        /\ ~NameExists(SnapName(web, nres))

(***************************************************************************)
(* Snapshot creation and listing (container_snapshot.go)                   *)
(***************************************************************************)
SnapParents == {web}

\* the "name" field of the request body: absent/empty, or a leaf name
ReqNames == {<<>>, <<"x">>}

\* the snapshots of web before the first request: none, or one named snap9
\* (created under that name, or what is left after snap0..snap8 were deleted)
InitialSnapshots == {{}, {9}}

InFlight(t) == tasks[t].pc \notin {"done", "aborted"}

Failed(t) == tasks[t].pc = "done" /\ tasks[t].err # "none"

\* sc.Delete(): removes the record and its on-disk location
Delete(name) ==
    /\ containers' = {r \in containers : r.name # name}
    /\ snapDirs' = snapDirs \ {name}
    /\ stateDirs' = stateDirs \ {name}

\* the closure returns err
Return(t, err) == tasks' = [tasks EXCEPT ![t].pc = "done", ![t].err = err]

\* the request handler: resolves the parent, picks the name, queues the task
containerSnapshotsPost(name, reqName, stateful) ==
    /\ Len(tasks) < MaxTasks
    /\ \E r \in containers : r.name = name /\ r.ctype = cTypeRegular
    /\ LET i == nextSnapshot(name)
           snapshotName == IF reqName = <<>> THEN snap \o FormatInt(i) ELSE reqName
           fullName == name \o SnapshotDelimiter \o snapshotName
       IN  tasks' = Append(tasks,
                [parent |-> name, fullName |-> fullName, stateful |-> stateful,
                 pc |-> "insert", sid |-> 0, err |-> "none",
                 ckpt |-> FALSE, stor |-> FALSE, sawRunning |-> "unchecked",
                 \* history: the number synthesized, -1 for a given name
                 num |-> IF reqName = <<>> THEN i ELSE -1])
    /\ UNCHANGED <<worldVars, listed, nres, lifeVars, cascVars, shutVars>>

\* the insert step rolling back by name when the insert itself fails
SnapshotInsert_DeleteOnFailure(t) ==
    /\ tasks[t].pc = "insert"
    /\ \E ok \in BOOLEAN :
         IF ok /\ ~NameExists(tasks[t].fullName)
         THEN /\ containers' = containers \cup {Row(nextId, tasks[t].fullName, cTypeSnapshot)}
              /\ nextId' = nextId + 1
              /\ tasks' = [tasks EXCEPT ![t].sid = nextId,
                              ![t].pc = IF tasks[t].stateful THEN "mkdir" ELSE "storage"]
              /\ UNCHANGED <<snapDirs, stateDirs>>
         ELSE /\ Delete(tasks[t].fullName)
              /\ Return(t, "insert")
              /\ UNCHANGED nextId
    /\ UNCHANGED <<running, listed, nres, lifeVars, cascVars, shutVars>>

\* createcontainerLXD(d, fullName, args): the row insert; names are unique
SnapshotInsert(t) ==
    /\ tasks[t].pc = "insert"
    /\ \E ok \in BOOLEAN :
         IF ok /\ ~NameExists(tasks[t].fullName)
         THEN /\ containers' = containers \cup {Row(nextId, tasks[t].fullName, cTypeSnapshot)}
              /\ nextId' = nextId + 1
              /\ tasks' = [tasks EXCEPT ![t].sid = nextId,
                              ![t].pc = IF tasks[t].stateful THEN "mkdir" ELSE "storage"]
         ELSE /\ Return(t, "insert")
              /\ UNCHANGED <<containers, nextId>>
    /\ UNCHANGED <<running, snapDirs, stateDirs, listed, nres, lifeVars, cascVars, shutVars>>

\* os.MkdirAll(stateDir, 0700)
SnapshotMkdir(t) ==
    /\ tasks[t].pc = "mkdir"
    /\ \E ok \in BOOLEAN :
         IF ok
         THEN /\ stateDirs' = stateDirs \cup {tasks[t].fullName}
              /\ tasks' = [tasks EXCEPT ![t].pc = "isrunning"]
              /\ UNCHANGED <<containers, snapDirs>>
         ELSE /\ Delete(tasks[t].fullName)
              /\ Return(t, "mkdir")
    /\ UNCHANGED <<nextId, running, listed, nres, lifeVars, cascVars, shutVars>>

\* the same step going on to the checkpoint whatever the runtime state
SnapshotIsRunning_NoCheck(t) ==
    /\ tasks[t].pc = "isrunning"
    /\ tasks' = [tasks EXCEPT ![t].pc = "lxcget",
                     ![t].sawRunning = IF running[tasks[t].parent] THEN "yes" ELSE "no"]
    /\ UNCHANGED <<containers, snapDirs, stateDirs>>
    /\ UNCHANGED <<nextId, running, listed, nres, lifeVars, cascVars, shutVars>>

\* if !c.IsRunning() { sc.Delete(); return "Container not running" }
SnapshotIsRunning(t) ==
    /\ tasks[t].pc = "isrunning"
    /\ IF running[tasks[t].parent]
       THEN /\ tasks' = [tasks EXCEPT ![t].pc = "lxcget", ![t].sawRunning = "yes"]
            /\ UNCHANGED <<containers, snapDirs, stateDirs>>
       ELSE /\ Delete(tasks[t].fullName)
            /\ tasks' = [tasks EXCEPT ![t].pc = "done", ![t].err = "notrunning",
                                      ![t].sawRunning = "no"]
    /\ UNCHANGED <<nextId, running, listed, nres, lifeVars, cascVars, shutVars>>

\* c.LXContainerGet()
SnapshotLXContainerGet(t) ==
    /\ tasks[t].pc = "lxcget"
    /\ \E ok \in BOOLEAN :
         IF ok
         THEN /\ tasks' = [tasks EXCEPT ![t].pc = "checkpoint"]
              /\ UNCHANGED <<containers, snapDirs, stateDirs>>
         ELSE /\ Delete(tasks[t].fullName)
              /\ Return(t, "lxcget")
    /\ UNCHANGED <<nextId, running, listed, nres, lifeVars, cascVars, shutVars>>

\* lxcContainer.Checkpoint({Directory: stateDir, Stop: true}); it can only
\* succeed on a running container, which it stops
SnapshotCheckpoint(t) ==
    /\ tasks[t].pc = "checkpoint"
    /\ \E ok \in BOOLEAN :
         IF ok /\ running[tasks[t].parent]
         THEN /\ running' = [running EXCEPT ![tasks[t].parent] = FALSE]
              /\ tasks' = [tasks EXCEPT ![t].pc = "storage", ![t].ckpt = TRUE]
              /\ UNCHANGED <<containers, snapDirs, stateDirs>>
         ELSE /\ Delete(tasks[t].fullName)
              /\ tasks' = [tasks EXCEPT ![t].pc = "done", ![t].err = "checkpoint",
                                        ![t].ckpt = TRUE]
              /\ UNCHANGED running
    /\ UNCHANGED <<nextId, listed, nres, lifeVars, cascVars, shutVars>>

\* the same step without the rollback of the inserted row
SnapshotStorage_NoRollback(t) ==
    /\ tasks[t].pc = "storage"
    /\ \E ok \in BOOLEAN :
         IF ok
         THEN /\ snapDirs' = snapDirs \cup {tasks[t].fullName}
              /\ tasks' = [tasks EXCEPT ![t].pc = "done", ![t].stor = TRUE]
              /\ UNCHANGED <<containers, stateDirs>>
         ELSE /\ tasks' = [tasks EXCEPT ![t].pc = "done", ![t].err = "storage",
                                        ![t].stor = TRUE]
              /\ UNCHANGED <<containers, snapDirs, stateDirs>>
    /\ UNCHANGED <<nextId, running, listed, nres, lifeVars, cascVars, shutVars>>

\* d.Storage.ContainerSnapshotCreate(sc, c)
SnapshotStorage(t) ==
    /\ tasks[t].pc = "storage"
    /\ \E ok \in BOOLEAN :
         IF ok
         THEN /\ snapDirs' = snapDirs \cup {tasks[t].fullName}
              /\ tasks' = [tasks EXCEPT ![t].pc = "done", ![t].stor = TRUE]
              /\ UNCHANGED <<containers, stateDirs>>
         ELSE /\ Delete(tasks[t].fullName)
              /\ tasks' = [tasks EXCEPT ![t].pc = "done", ![t].err = "storage",
                                        ![t].stor = TRUE]
    /\ UNCHANGED <<nextId, running, listed, nres, lifeVars, cascVars, shutVars>>

\* the daemon dies: tasks live in the process and are gone, the table and
\* the disk stay as they are
DaemonCrash ==
    /\ \E t \in 1..Len(tasks) : InFlight(t)
    /\ tasks' = [t \in 1..Len(tasks) |->
                    IF InFlight(t) THEN [tasks[t] EXCEPT !.pc = "aborted"] ELSE tasks[t]]
    /\ UNCHANGED <<worldVars, listed, nres, lifeVars, cascVars, shutVars>>

\* shared.APIVersion
APIVersion == <<"1", ".", "0">>

\* fmt.Sprintf("/%s/containers/%s/snapshots/%s", shared.APIVersion, cname, name)
SnapshotURL(cname, name) ==
    <<"/">> \o APIVersion \o <<"/", "c", "o", "n", "t", "a", "i", "n", "e", "r", "s", "/">>
        \o cname \o <<"/", "s", "n", "a", "p", "s", "h", "o", "t", "s", "/">> \o name

\* the rows of a query in the order the table returns them, by row id
RECURSIVE InRowOrder(_)
InRowOrder(S) ==
    IF S = {} THEN <<>>
    ELSE LET first == CHOOSE r \in S : \A q \in S : r.id <= q.id
         IN  <<first>> \o InRowOrder(S \ {first})

\* the loop over the query's rows: a row that does not load is skipped, the
\* others append a reference string or a {name, stateful} body
RECURSIVE ListEntries(_, _, _, _)
ListEntries(results, loaded, cname, recursion) ==
    IF results = <<>> THEN <<>>
    ELSE LET name == Head(results).name
             rest == ListEntries(Tail(results), loaded, cname, recursion)
         IN  IF Head(results) \notin loaded THEN rest
             ELSE IF recursion = 0 THEN <<SnapshotURL(cname, name)>> \o rest
             ELSE <<[name |-> name, stateful |-> name \in stateDirs]>> \o rest

\* the listing with the query's prefix lacking the delimiter
containerSnapshotsGet_NoDelimiter(cname, recursion) ==
    /\ \E ok \in BOOLEAN :
         IF ~NameExists(cname)
         THEN listed' = [NoListing EXCEPT !.parent = cname, !.recursion = recursion,
                                          !.status = "NotFound"]
         ELSE IF ~ok
         THEN listed' = [NoListing EXCEPT !.parent = cname, !.recursion = recursion,
                                          !.status = "error"]
         ELSE LET results == SnapshotsWithPrefix(cname)
              IN  \E loaded \in SUBSET results :
                     listed' = [parent |-> cname, recursion |-> recursion, status |-> "ok",
                                ids |-> {r.id : r \in loaded},
                                names |-> {r.name : r \in loaded},
                                result |-> ListEntries(InRowOrder(results), loaded,
                                                       cname, recursion)]
    /\ UNCHANGED <<worldVars, tasks, nres, lifeVars, cascVars, shutVars>>

\* the listing: the parent must exist; every matching row that loads is
\* returned, a row that fails to load is skipped
containerSnapshotsGet(cname, recursion) ==
    /\ \E ok \in BOOLEAN :
         IF ~NameExists(cname)
         THEN listed' = [NoListing EXCEPT !.parent = cname, !.recursion = recursion,
                                          !.status = "NotFound"]
         ELSE IF ~ok
         THEN listed' = [NoListing EXCEPT !.parent = cname, !.recursion = recursion,
                                          !.status = "error"]
         ELSE LET results == SnapshotsWithPrefix(cname \o SnapshotDelimiter)
              IN  \E loaded \in SUBSET results :
                     listed' = [parent |-> cname, recursion |-> recursion, status |-> "ok",
                                ids |-> {r.id : r \in loaded},
                                names |-> {r.name : r \in loaded},
                                result |-> ListEntries(InRowOrder(results), loaded,
                                                       cname, recursion)]
    /\ UNCHANGED <<worldVars, tasks, nres, lifeVars, cascVars, shutVars>>

SnapInit ==
    /\ \E K \in InitialSnapshots :
          containers = {Row(1, web, cTypeRegular), Row(2, webx, cTypeRegular),
                        Row(3, SnapName(webx, 7), cTypeSnapshot)}
                       \cup {Row(4 + k, SnapName(web, k), cTypeSnapshot) : k \in K}
    /\ nextId = 20
    /\ \E b \in BOOLEAN : running = [c \in {web, webx} |-> c = web /\ b]
    /\ snapDirs = {r.name : r \in {c \in containers : c.ctype = cTypeSnapshot}}
    /\ stateDirs = {}
    /\ tasks = <<>>
    /\ listed = NoListing
    /\ nres = -1
    /\ casc = IdleCasc
    /\ parentDir = TRUE
    /\ fsKind = "dir"
    /\ containers0 = {}
    /\ snapDirs0 = {}
    /\ sd = IdleSd
    /\ gpc = <<>>
    /\ wg = 0
    /\ hist = <<>>
    /\ LifeIdle

SnapNext ==
    \/ \E name \in SnapParents, reqName \in ReqNames, stateful \in BOOLEAN :
          containerSnapshotsPost(name, reqName, stateful)
    \/ \E t \in 1..Len(tasks) : SnapshotInsert(t)
    \/ \E t \in 1..Len(tasks) : SnapshotMkdir(t)
    \/ \E t \in 1..Len(tasks) : SnapshotIsRunning(t)
    \/ \E t \in 1..Len(tasks) : SnapshotLXContainerGet(t)
    \/ \E t \in 1..Len(tasks) : SnapshotCheckpoint(t)
    \/ \E t \in 1..Len(tasks) : SnapshotStorage(t)
    \/ DaemonCrash
    \/ \E cname \in SnapParents : containerSnapshotsGet(cname, 0)

SpecSnap == SnapInit /\ [][SnapNext]_vars

(***************************************************************************)
(* Properties of snapshot creation                                         *)
(***************************************************************************)
OwnRow(t) == {r \in containers : r.id = tasks[t].sid}

AllStepsSucceeded(t) ==
    /\ tasks[t].sid # 0
    /\ tasks[t].stateful => (tasks[t].ckpt /\ tasks[t].err # "checkpoint")
    /\ tasks[t].stor /\ tasks[t].err # "storage"

AbortedSnapshotNeverListed ==
    \A t \in 1..Len(tasks) :
        (Failed(t) \/ tasks[t].pc = "aborted") /\ tasks[t].sid # 0
            => tasks[t].sid \notin listed.ids

UnnamedGetsNextSuffix ==
    [][(/\ Len(tasks') = Len(tasks) + 1
        /\ tasks'[Len(tasks')].num # -1
        /\ \A u \in 1..Len(tasks) : ~InFlight(u))
       => tasks'[Len(tasks')].num =
             (IF SnapNumbers(web) = {} THEN 0 ELSE SetMax(SnapNumbers(web)) + 1)]_vars

\* C20: two requests without a name for the same parent are never given
\* the same snapshot name.
UnnamedNamesNeverCollide ==
    \A t, u \in 1..Len(tasks) :
        (t # u /\ tasks[t].num # -1 /\ tasks[u].num # -1
               /\ tasks[t].parent = tasks[u].parent)
           => tasks[t].fullName # tasks[u].fullName

\* C21: names stay unique, and every step of the creation tasks leaves
\* the table as it was except for the row of the task that moves: a task
\* that fails at the insert changes nothing, a task that fails later
\* removes only the row it inserted, and a row is added only under a fresh
\* id and an unused name.
FailedCreationRemovesOwnRowOnly ==
    /\ [](\A r, q \in containers : r.name = q.name => r = q)
    /\ [][/\ \A t \in 1..Len(tasks) :
               (tasks[t].pc = "insert" /\ tasks'[t].pc = "done") =>
                   containers' = containers
          /\ \A r \in containers \ containers' :
               \E t \in 1..Len(tasks) :
                   /\ tasks[t].sid = r.id
                   /\ tasks[t].fullName = r.name
                   /\ tasks[t].pc \notin {"insert", "done", "aborted"}
                   /\ tasks'[t].pc = "done" /\ tasks'[t].err # "none"
          /\ \A r \in containers' \ containers :
               /\ \A q \in containers : q.id # r.id /\ q.name # r.name
               /\ \E t \in 1..Len(tasks) :
                     tasks[t].pc = "insert" /\ tasks'[t].sid = r.id
         ]_vars

\* a task has failed at the insert because another task's row holds the
\* name, and that row is still there
DuplicateInsertRefused ==
    \E t, u \in 1..Len(tasks) :
        /\ t # u
        /\ tasks[t].pc = "done" /\ tasks[t].err = "insert" /\ tasks[t].sid = 0
        /\ tasks[u].fullName = tasks[t].fullName
        /\ OwnRow(u) # {}

(***************************************************************************)
(* Cascade delete: containerDeleteSnapshots                                *)
(***************************************************************************)
\* the orders in which a query may return a set of rows
Orderings(S) ==
    {q \in [1..Cardinality(S) -> S] : \A a, b \in 1..Cardinality(S) : q[a] = q[b] => a = b}

CascReturn(err, fault) ==
    casc' = [casc EXCEPT !.pc = "done", !.err = err, !.fault = fault]

\* the same query matching on the parent's name without the delimiter
CascadeQuery_NoDelimiter(cname) ==
    /\ casc.pc \in {"idle", "crashed", "done"}
    /\ casc.runs < MaxRuns
    /\ \E ok \in BOOLEAN :
         IF ok
         THEN \E results \in Orderings(SnapshotsWithPrefix(cname)) :
                 casc' = [casc EXCEPT !.pc = "detect", !.cname = cname,
                             !.results = results, !.ids = <<>>, !.i = 1,
                             !.backingFs = "", !.err = "none", !.fault = FALSE,
                             !.runs = casc.runs + 1]
         ELSE casc' = [casc EXCEPT !.pc = "done", !.cname = cname, !.err = "query",
                          !.fault = TRUE, !.runs = casc.runs + 1]
    /\ UNCHANGED <<worldVars, snapVars, nres, lifeVars, parentDir, fsKind, containers0, snapDirs0, shutVars>>

\* SELECT name, id FROM containers WHERE type=? AND SUBSTR(name,1,?)=?
CascadeQuery(cname) ==
    /\ casc.pc \in {"idle", "crashed", "done"}
    /\ casc.runs < MaxRuns
    /\ \E ok \in BOOLEAN :
         IF ok
         THEN \E results \in Orderings(SnapshotsWithPrefix(cname \o SnapshotDelimiter)) :
                 casc' = [casc EXCEPT !.pc = "detect", !.cname = cname,
                             !.results = results, !.ids = <<>>, !.i = 1,
                             !.backingFs = "", !.err = "none", !.fault = FALSE,
                             !.runs = casc.runs + 1]
         ELSE casc' = [casc EXCEPT !.pc = "done", !.cname = cname, !.err = "query",
                          !.fault = TRUE, !.runs = casc.runs + 1]
    /\ UNCHANGED <<worldVars, snapVars, nres, lifeVars, parentDir, fsKind, containers0, snapDirs0, shutVars>>

\* filesystemDetect(containers/<cname>); a missing directory is tolerated
CascadeDetect ==
    /\ casc.pc = "detect"
    /\ IF ~parentDir
       THEN casc' = [casc EXCEPT !.pc = "rm"]
       ELSE \E ok \in BOOLEAN :
               IF ok THEN casc' = [casc EXCEPT !.pc = "rm", !.backingFs = fsKind]
               ELSE CascReturn("detect", TRUE)
    /\ UNCHANGED <<worldVars, snapVars, nres, lifeVars, parentDir, fsKind, containers0, snapDirs0, shutVars>>

\* os.RemoveAll(cdir) and btrfsDeleteSubvol(cdir) on the set of locations;
\* the cascade discards what they return
RemoveAll(dirs, cdir) == dirs \ {cdir}

btrfsDeleteSubvol(dirs, cdir) == dirs \ {cdir}

\* the same loop step collecting the id without removing the location
CascadeRemove_KeepDir ==
    /\ casc.pc = "rm"
    /\ IF casc.i > Len(casc.results)
       THEN casc' = [casc EXCEPT !.pc = "del", !.i = 1]
       ELSE casc' = [casc EXCEPT !.ids = Append(casc.ids, casc.results[casc.i].id),
                                 !.i = casc.i + 1]
    /\ UNCHANGED snapDirs
    /\ UNCHANGED <<containers, nextId, running, stateDirs, snapVars, nres, lifeVars,
                   parentDir, fsKind, containers0, snapDirs0, shutVars>>

\* first loop: collect the id, btrfsDeleteSubvol(cdir) on btrfs, os.RemoveAll(cdir)
CascadeRemove ==
    /\ casc.pc = "rm"
    /\ IF casc.i > Len(casc.results)
       THEN /\ casc' = [casc EXCEPT !.pc = "del", !.i = 1]
            /\ UNCHANGED snapDirs
       ELSE LET sname == casc.results[casc.i].name
                id == casc.results[casc.i].id
            IN  /\ casc' = [casc EXCEPT !.ids = Append(casc.ids, id), !.i = casc.i + 1]
                /\ IF casc.backingFs = "btrfs"
                   THEN snapDirs' = RemoveAll(btrfsDeleteSubvol(snapDirs, sname), sname)
                   ELSE snapDirs' = RemoveAll(snapDirs, sname)
    /\ UNCHANGED <<containers, nextId, running, stateDirs, snapVars, nres, lifeVars,
                   parentDir, fsKind, containers0, snapDirs0, shutVars>>

\* second loop: DELETE FROM containers WHERE id=?
CascadeDelete ==
    /\ casc.pc = "del"
    /\ IF casc.i > Len(casc.ids)
       THEN /\ CascReturn("none", FALSE)
            /\ UNCHANGED containers
       ELSE \E ok \in BOOLEAN :
               IF ok
               THEN /\ containers' = {r \in containers : r.id # casc.ids[casc.i]}
                    /\ casc' = [casc EXCEPT !.i = casc.i + 1]
               ELSE /\ casc' = [casc EXCEPT !.pc = "done", !.err = "db",
                                            !.fault = TRUE, !.cut = TRUE]
                    /\ UNCHANGED containers
    /\ UNCHANGED <<nextId, running, snapDirs, stateDirs, snapVars, nres, lifeVars,
                   parentDir, fsKind, containers0, snapDirs0, shutVars>>

\* the cascade is cut off where it stands (daemon killed)
CascadeInterrupt ==
    /\ casc.pc \in {"detect", "rm", "del"}
    /\ casc' = [casc EXCEPT !.pc = "crashed", !.cut = casc.cut \/ casc.pc = "del"]
    /\ UNCHANGED <<worldVars, snapVars, nres, lifeVars, parentDir, fsKind, containers0, snapDirs0, shutVars>>

CascParents == {web}

\* web has up to MaxSnaps snapshots; a row may already lack its location
CascInit ==
    /\ \E n \in 0..MaxSnaps :
          containers = {Row(1, web, cTypeRegular), Row(2, webx, cTypeRegular),
                        Row(3, SnapName(webx, 7), cTypeSnapshot)}
                       \cup {Row(4 + k, SnapName(web, k), cTypeSnapshot) : k \in 0..(n - 1)}
    /\ nextId = 20
    /\ running = [c \in {web, webx} |-> FALSE]
    /\ \E D \in SUBSET {r.name : r \in SnapshotsWithPrefix(web \o SnapshotDelimiter)} :
          snapDirs = D \cup {SnapName(webx, 7)}
    /\ stateDirs = {}
    /\ tasks = <<>>
    /\ listed = NoListing
    /\ nres = -1
    /\ casc = IdleCasc
    /\ parentDir \in BOOLEAN
    /\ fsKind \in {"btrfs", "dir"}
    /\ containers0 = containers
    /\ snapDirs0 = snapDirs
    /\ sd = IdleSd
    /\ gpc = <<>>
    /\ wg = 0
    /\ hist = <<>>
    /\ LifeIdle

CascNext ==
    \/ \E cname \in CascParents : CascadeQuery(cname)
    \/ CascadeDetect
    \/ CascadeRemove
    \/ CascadeDelete
    \/ CascadeInterrupt

SpecCascade == CascInit /\ [][CascNext]_vars

\* the snapshot rows of web when the cascade was first requested
Matching0 ==
    {r \in containers0 : /\ r.ctype = cTypeSnapshot
                         /\ SUBSTR(r.name, Len(web) + 1) = web \o SnapshotDelimiter}

Letters == <<"a", "b", "c", "d", "e">>

RegNames == {<<Letters[k]>> : k \in 1..NumRegular}

\* d.ListRegularContainers(): the names of the rows of type Regular
ListRegularContainers == {r.name : r \in {c \in containers : c.ctype = cTypeRegular}}

NoHist == [seen |-> "unchecked", ps |-> FALSE, shutdown |-> "no", stop |-> FALSE]

InProgress(c) == gpc[c] \in {"shutdown", "stop", "wgdone"}

SdReturn(err) == sd' = [sd EXCEPT !.pc = "returned", !.err = err]

\* results, err := d.ListRegularContainers()
ShutdownList ==
    /\ sd.pc = "idle"
    /\ \E ok \in BOOLEAN :
         IF ok
         THEN \E results \in Orderings(ListRegularContainers) :
                 sd' = [sd EXCEPT !.pc = "loop", !.results = results]
         ELSE SdReturn("list")
    /\ UNCHANGED <<worldVars, snapVars, nres, lifeVars, cascVars, gpc, wg, hist>>

\* head of the loop body: newLxdContainer(r, d) and container.IsRunning()
ShutdownLoad ==
    /\ sd.pc = "loop"
    /\ IF sd.results = <<>>
       THEN /\ SdReturn("none")
            /\ UNCHANGED hist
       ELSE LET r == Head(sd.results)
            IN  \E ok \in BOOLEAN :
                   IF ok
                   THEN /\ sd' = [sd EXCEPT !.results = Tail(sd.results), !.cur = r,
                                    !.pc = IF running[r] THEN "persist" ELSE "wait"]
                        /\ hist' = [hist EXCEPT ![r].seen =
                                        IF running[r] THEN "yes" ELSE "no"]
                   ELSE /\ SdReturn("load")
                        /\ UNCHANGED hist
    /\ UNCHANGED <<worldVars, snapVars, nres, lifeVars, cascVars, gpc, wg>>

\* UPDATE containers SET power_state=1 WHERE name=?
ShutdownPersist ==
    /\ sd.pc = "persist"
    /\ \E ok \in BOOLEAN :
         IF ok
         THEN /\ containers' = {IF r.name = sd.cur THEN [r EXCEPT !.power_state = 1] ELSE r
                                : r \in containers}
              /\ hist' = [hist EXCEPT ![sd.cur].ps = TRUE]
              /\ sd' = [sd EXCEPT !.pc = "spawn"]
         ELSE /\ SdReturn("db")
              /\ UNCHANGED <<containers, hist>>
    /\ UNCHANGED <<nextId, running, snapDirs, stateDirs, snapVars, nres, lifeVars, cascVars, gpc, wg>>

\* wg.Add(1); go func() { ... }()
ShutdownSpawn ==
    /\ sd.pc = "spawn"
    /\ wg' = wg + 1
    /\ gpc' = [gpc EXCEPT ![sd.cur] = "shutdown"]
    /\ sd' = [sd EXCEPT !.pc = "wait"]
    /\ UNCHANGED <<worldVars, snapVars, nres, lifeVars, cascVars, hist>>

\* a Wait that returns although the counter is not zero
ShutdownWait_NoBlock ==
    /\ sd.pc = "wait"
    /\ sd' = [sd EXCEPT !.pc = "loop"]
    /\ UNCHANGED <<worldVars, snapVars, nres, lifeVars, cascVars, gpc, wg, hist>>

\* wg.Wait() at the end of the loop body
ShutdownWait ==
    /\ sd.pc = "wait"
    /\ wg = 0
    /\ sd' = [sd EXCEPT !.pc = "loop"]
    /\ UNCHANGED <<worldVars, snapVars, nres, lifeVars, cascVars, gpc, wg, hist>>

\* a goroutine that stops the container only when Shutdown did not
GoShutdown_StopOnlyOnFailure(c) ==
    /\ gpc[c] = "shutdown"
    /\ \E ok \in BOOLEAN :
         /\ running' = [running EXCEPT ![c] = IF ok THEN FALSE ELSE running[c]]
         /\ hist' = [hist EXCEPT ![c].shutdown = IF ok THEN "ok" ELSE "failed"]
         /\ gpc' = [gpc EXCEPT ![c] = IF ok THEN "wgdone" ELSE "stop"]
    /\ UNCHANGED <<containers, nextId, snapDirs, stateDirs, snapVars, nres, lifeVars, cascVars, sd, wg>>

\* container.Shutdown(time.Second * 30); its result is not looked at
GoShutdown(c) ==
    /\ gpc[c] = "shutdown"
    /\ \E ok \in BOOLEAN :
         /\ running' = [running EXCEPT ![c] = IF ok THEN FALSE ELSE running[c]]
         /\ hist' = [hist EXCEPT ![c].shutdown = IF ok THEN "ok" ELSE "failed"]
    /\ gpc' = [gpc EXCEPT ![c] = "stop"]
    /\ UNCHANGED <<containers, nextId, snapDirs, stateDirs, snapVars, nres, lifeVars, cascVars, sd, wg>>

\* container.Stop()
GoStop(c) ==
    /\ gpc[c] = "stop"
    /\ running' = [running EXCEPT ![c] = FALSE]
    /\ hist' = [hist EXCEPT ![c].stop = TRUE]
    /\ gpc' = [gpc EXCEPT ![c] = "wgdone"]
    /\ UNCHANGED <<containers, nextId, snapDirs, stateDirs, snapVars, nres, lifeVars, cascVars, sd, wg>>

\* wg.Done()
GoDone(c) ==
    /\ gpc[c] = "wgdone"
    /\ wg' = wg - 1
    /\ gpc' = [gpc EXCEPT ![c] = "done"]
    /\ UNCHANGED <<worldVars, snapVars, nres, lifeVars, cascVars, sd, hist>>

\* NumRegular regular containers, each running or not, and one snapshot row
ShutInit ==
    /\ containers = {Row(k, <<Letters[k]>>, cTypeRegular) : k \in 1..NumRegular}
                    \cup {Row(10, SnapName(<<"a">>, 0), cTypeSnapshot)}
    /\ nextId = 20
    /\ running \in [RegNames -> BOOLEAN]
    /\ snapDirs = {SnapName(<<"a">>, 0)}
    /\ stateDirs = {}
    /\ tasks = <<>>
    /\ listed = NoListing
    /\ nres = -1
    /\ casc = IdleCasc
    /\ parentDir = TRUE
    /\ fsKind = "dir"
    /\ containers0 = {}
    /\ snapDirs0 = {}
    /\ sd = IdleSd
    /\ gpc = [c \in RegNames |-> "none"]
    /\ wg = 0
    /\ hist = [c \in RegNames |-> NoHist]
    /\ LifeIdle

ShutNext ==
    \/ ShutdownList
    \/ ShutdownLoad
    \/ ShutdownPersist
    \/ ShutdownSpawn
    \/ ShutdownWait
    \/ \E c \in RegNames : GoShutdown(c)
    \/ \E c \in RegNames : GoStop(c)
    \/ \E c \in RegNames : GoDone(c)

SpecShutdown == ShutInit /\ [][ShutNext]_vars

PowerState(c) == (CHOOSE r \in containers : r.name = c).power_state

\* C8: for a running container power_state=1 is persisted before Shutdown
\* is requested, Stop follows Shutdown whatever Shutdown returned, and a
\* container found not running gets no write and no request.
PersistThenShutdownThenStop ==
    \A c \in RegNames :
        /\ hist[c].shutdown # "no" => (hist[c].ps /\ PowerState(c) = 1 /\ hist[c].seen = "yes")
        /\ hist[c].stop => hist[c].shutdown # "no"
        /\ gpc[c] \in {"wgdone", "done"} => hist[c].stop
        /\ gpc[c] # "none" => hist[c].ps
        /\ hist[c].seen = "no" =>
              /\ ~hist[c].ps /\ PowerState(c) = 0
              /\ hist[c].shutdown = "no" /\ ~hist[c].stop /\ gpc[c] = "none"

\* one container was stopped after a Shutdown that succeeded, one after a
\* Shutdown that failed, and one was found not running
ShutdownOutcomesReached ==
    /\ sd.pc = "returned"
    /\ \E c \in RegNames : hist[c].shutdown = "failed" /\ hist[c].stop
    /\ \E c \in RegNames : hist[c].shutdown = "ok" /\ hist[c].stop
    /\ \E c \in RegNames : hist[c].seen = "no"

\* C9: when containersShutdown has returned no sequence is in progress, and
\* when it returned nil every container found running went through its
\* whole sequence.
ReturnedMeansAllDone ==
    sd.pc = "returned" =>
        /\ \A c \in RegNames : ~InProgress(c)
        /\ sd.err = "none" =>
              \A c \in RegNames :
                  /\ hist[c].seen # "unchecked"
                  /\ hist[c].seen = "yes" => (gpc[c] = "done" /\ hist[c].stop)

\* returned nil after the sequences of two containers
ReturnedAfterTwoSequences ==
    /\ sd.pc = "returned" /\ sd.err = "none"
    /\ \E c1, c2 \in RegNames : c1 # c2 /\ gpc[c1] = "done" /\ gpc[c2] = "done"

\* C10: the sequences run independently with one join after the dispatch
\* loop: the loop never stands still on a sequence in progress while a
\* running container is still to be dispatched.
DispatchNeverWaits ==
    ~(/\ sd.pc = "wait"
      /\ \E c \in RegNames : InProgress(c)
      /\ \E k \in 1..Len(sd.results) : running[sd.results[k]])

(***************************************************************************)
(* Restart on boot: containersRestart                                      *)
(***************************************************************************)
RsReturn(err) == rs' = [rs EXCEPT !.pc = "returned", !.err = err]

\* the same query without the power_state condition
RestartQuery_AllRegular ==
    /\ rs.pc = "idle"
    /\ \E ok \in BOOLEAN :
         IF ok
         THEN \E result \in Orderings({r.name : r \in
                         {c \in containers : c.ctype = cTypeRegular}}) :
                 rs' = [rs EXCEPT !.pc = "clear", !.result = result]
         ELSE RsReturn("query")
    /\ UNCHANGED <<worldVars, snapVars, nres, cascVars, shutVars, watch, rn, ex>>

\* SELECT name FROM containers WHERE type=? AND power_state=1
RestartQuery ==
    /\ rs.pc = "idle"
    /\ \E ok \in BOOLEAN :
         IF ok
         THEN \E result \in Orderings({r.name : r \in
                         {c \in containers : c.ctype = cTypeRegular /\ c.power_state = 1}}) :
                 rs' = [rs EXCEPT !.pc = "clear", !.result = result]
         ELSE RsReturn("query")
    /\ UNCHANGED <<worldVars, snapVars, nres, cascVars, shutVars, watch, rn, ex>>

\* UPDATE containers SET power_state=0
RestartClear ==
    /\ rs.pc = "clear"
    /\ \E ok \in BOOLEAN :
         IF ok
         THEN /\ containers' = {[r EXCEPT !.power_state = 0] : r \in containers}
              /\ rs' = [rs EXCEPT !.pc = "loop"]
         ELSE /\ RsReturn("db")
              /\ UNCHANGED containers
    /\ UNCHANGED <<nextId, running, snapDirs, stateDirs, snapVars, nres, cascVars,
                   shutVars, watch, rn, ex>>

\* head of the loop body: newLxdContainer(name, d)
RestartLoad ==
    /\ rs.pc = "loop"
    /\ IF rs.result = <<>>
       THEN RsReturn("none")
       ELSE \E ok \in BOOLEAN :
               IF ok
               THEN rs' = [rs EXCEPT !.pc = "start", !.cur = Head(rs.result),
                                     !.result = Tail(rs.result)]
               ELSE RsReturn("load")
    /\ UNCHANGED <<worldVars, snapVars, nres, cascVars, shutVars, watch, rn, ex>>

\* container.Start(); what it returns is dropped
RestartStart ==
    /\ rs.pc = "start"
    /\ \E ok \in BOOLEAN :
         /\ running' = [running EXCEPT ![rs.cur] = ok \/ running[rs.cur]]
         /\ rs' = [rs EXCEPT !.pc = "loop",
                             !.starts[rs.cur] = rs.starts[rs.cur] + 1,
                             !.startFailed = IF ok THEN rs.startFailed
                                             ELSE rs.startFailed \cup {rs.cur}]
    /\ UNCHANGED <<containers, nextId, snapDirs, stateDirs, snapVars, nres, cascVars,
                   shutVars, watch, rn, ex>>

\* the daemon starts: no container runs, each regular row carries the flag
\* the last shutdown left
RestartInit ==
    /\ \E flag \in [RegNames -> {0, 1}] :
          containers = {[Row(k, <<Letters[k]>>, cTypeRegular) EXCEPT
                            !.power_state = flag[<<Letters[k]>>]] : k \in 1..NumRegular}
                       \cup {Row(10, SnapName(<<"a">>, 0), cTypeSnapshot)}
    /\ nextId = 20
    /\ running = [c \in RegNames |-> FALSE]
    /\ snapDirs = {SnapName(<<"a">>, 0)}
    /\ stateDirs = {}
    /\ tasks = <<>>
    /\ listed = NoListing
    /\ nres = -1
    /\ casc = IdleCasc
    /\ parentDir = TRUE
    /\ fsKind = "dir"
    /\ containers0 = {}
    /\ snapDirs0 = {}
    /\ sd = IdleSd
    /\ gpc = <<>>
    /\ wg = 0
    /\ hist = <<>>
    /\ rs = [IdleRs EXCEPT
                !.ps0 = [n \in {r.name : r \in containers} |->
                            (CHOOSE r \in containers : r.name = n).power_state],
                !.starts = [n \in {r.name : r \in containers} |-> 0]]
    /\ watch = IdleWatch
    /\ rn = IdleRn
    /\ ex = IdleEx

RestartNext ==
    \/ RestartQuery
    \/ RestartClear
    \/ RestartLoad
    \/ RestartStart

SpecRestart == RestartInit /\ [][RestartNext]_vars

\* C11: when containersRestart returns nil every row's power_state is 0 and
\* Start was attempted exactly once on each Regular container whose flag
\* was 1 at the call, and on no other row.
RestartStartsExactlyFlagged ==
    (rs.pc = "returned" /\ rs.err = "none") =>
        /\ \A r \in containers : r.power_state = 0
        /\ \A r \in containers :
              rs.starts[r.name] =
                 IF r.ctype = cTypeRegular /\ rs.ps0[r.name] = 1 THEN 1 ELSE 0

\* returned nil with a flagged container started and an unflagged one left
RestartReturnedMixed ==
    /\ rs.pc = "returned" /\ rs.err = "none"
    /\ \E n \in RegNames : rs.ps0[n] = 1 /\ rs.starts[n] = 1
    /\ \E n \in RegNames : rs.ps0[n] = 0

\* C12: a Start that fails for one selected container makes
\* containersRestart return an error; the containers started before it
\* stay running.
StartFailureSurfaced ==
    rs.pc = "returned" =>
        /\ rs.startFailed # {} => rs.err # "none"
        /\ \A n \in RegNames :
              (rs.starts[n] = 1 /\ n \notin rs.startFailed) => running[n]

(***************************************************************************)
(* Shutdown, then restart on boot                                          *)
(***************************************************************************)
\* the daemon has ended after containersShutdown returned and starts again:
\* containersRestart is called on the table the shutdown left
DaemonBoot ==
    /\ sd.pc = "returned"
    /\ rs.pc = "down"
    /\ rs' = [rs EXCEPT !.pc = "idle",
                 !.ps0 = [n \in {r.name : r \in containers} |->
                             (CHOOSE r \in containers : r.name = n).power_state]]
    /\ UNCHANGED <<worldVars, snapVars, nres, cascVars, shutVars, watch, rn, ex>>

\* the table of a daemon at work: no flag is set, each container runs or not
RoundTripInit ==
    /\ containers = {Row(k, <<Letters[k]>>, cTypeRegular) : k \in 1..NumRegular}
                    \cup {Row(10, SnapName(<<"a">>, 0), cTypeSnapshot)}
    /\ nextId = 20
    /\ running \in [RegNames -> BOOLEAN]
    /\ snapDirs = {SnapName(<<"a">>, 0)}
    /\ stateDirs = {}
    /\ tasks = <<>>
    /\ listed = NoListing
    /\ nres = -1
    /\ casc = IdleCasc
    /\ parentDir = TRUE
    /\ fsKind = "dir"
    /\ containers0 = {}
    /\ snapDirs0 = {}
    /\ sd = IdleSd
    /\ gpc = [c \in RegNames |-> "none"]
    /\ wg = 0
    /\ hist = [c \in RegNames |-> NoHist]
    /\ rs = [IdleRs EXCEPT !.pc = "down", !.run0 = running,
                !.starts = [n \in {r.name : r \in containers} |-> 0]]
    /\ watch = IdleWatch
    /\ rn = IdleRn
    /\ ex = IdleEx

RoundTripNext ==
    \/ ShutNext
    \/ DaemonBoot
    \/ RestartNext

SpecRoundTrip == RoundTripInit /\ [][RoundTripNext]_vars

\* C22: when containersRestart has returned after a shutdown, (1) if both
\* returned nil, Start was attempted on exactly the containers that ran
\* when the shutdown began, and (2) in every case a container that ran at
\* shutdown and had its flag persisted still has the flag or has had its
\* start attempt.
PowerStateRoundTrips ==
    rs.pc = "returned" =>
        /\ (sd.err = "none" /\ rs.err = "none") =>
              \A c \in RegNames : (rs.starts[c] >= 1) <=> rs.run0[c]
        /\ \A c \in RegNames :
              (rs.run0[c] /\ hist[c].ps) => (PowerState(c) = 1 \/ rs.starts[c] >= 1)

(***************************************************************************)
(* Ephemeral containers: containersWatch and containerWatchEphemeral       *)
(***************************************************************************)
WatchNames == {<<Letters[k]>> : k \in 1..NumWatched}

\* a watcher goroutine: position, what its Waits returned, and history
NoWatcher == [pc |-> "none", obs |-> <<>>, sawRecord |-> FALSE, deleted |-> FALSE,
              ephemeral |-> FALSE, wasRunning |-> FALSE]

WReturn(err) == watch' = [watch EXCEPT !.pc = "returned", !.err = err]

\* SELECT name FROM containers WHERE type=?
WatchList ==
    /\ watch.pc = "idle"
    /\ \E ok \in BOOLEAN :
         IF ok
         THEN \E result \in Orderings(ListRegularContainers) :
                 watch' = [watch EXCEPT !.pc = "loop", !.result = result]
         ELSE WReturn("query")
    /\ UNCHANGED <<worldVars, snapVars, nres, cascVars, shutVars, rs, rn, ex>>

\* the loop body: load the container; if it is ephemeral and running,
\* containerWatchEphemeral starts its goroutine
WatchLoop ==
    /\ watch.pc = "loop"
    /\ IF watch.result = <<>>
       THEN WReturn("none")
       ELSE LET c == Head(watch.result)
                row == CHOOSE r \in containers : r.name = c
            IN  \E ok \in BOOLEAN :
                   IF ~ok \/ ~NameExists(c) THEN WReturn("load")
                   ELSE IF row.ephemeral /\ running[c]
                   THEN watch' = [watch EXCEPT !.result = Tail(watch.result),
                                     !.w[c] = [NoWatcher EXCEPT !.pc = "get",
                                                  !.ephemeral = row.ephemeral,
                                                  !.wasRunning = running[c]]]
                   ELSE watch' = [watch EXCEPT !.result = Tail(watch.result)]
    /\ UNCHANGED <<worldVars, snapVars, nres, cascVars, shutVars, rs, rn, ex>>

\* lxContainer, err := c.LXContainerGet()
WatchGet(c) ==
    /\ watch.w[c].pc = "get"
    /\ \E ok \in BOOLEAN :
         watch' = [watch EXCEPT !.w[c].pc = IF ok THEN "wait1" ELSE "exit"]
    /\ UNCHANGED <<worldVars, snapVars, nres, cascVars, shutVars, rs, rn, ex>>

\* lxContainer.Wait(lxc.STOPPED, -1*time.Second): blocks until stopped
WatchWaitStopped1(c) ==
    /\ watch.w[c].pc = "wait1"
    /\ ~running[c]
    /\ watch' = [watch EXCEPT !.w[c].pc = "wait2",
                              !.w[c].obs = Append(watch.w[c].obs, "stopped")]
    /\ UNCHANGED <<worldVars, snapVars, nres, cascVars, shutVars, rs, rn, ex>>

\* the same Wait followed directly by the persistence check
WatchWaitRunning_NoThirdWait(c) ==
    /\ watch.w[c].pc = "wait2"
    /\ watch' = [watch EXCEPT !.w[c].pc = "check",
                    !.w[c].obs = Append(watch.w[c].obs,
                                        IF running[c] THEN "running" ELSE "timeout")]
    /\ UNCHANGED <<worldVars, snapVars, nres, cascVars, shutVars, rs, rn, ex>>

\* lxContainer.Wait(lxc.RUNNING, 1*time.Second): returns when the container
\* runs, or when the second is over and it does not
WatchWaitRunning(c) ==
    /\ watch.w[c].pc = "wait2"
    /\ watch' = [watch EXCEPT !.w[c].pc = "wait3",
                    !.w[c].obs = Append(watch.w[c].obs,
                                        IF running[c] THEN "running" ELSE "timeout")]
    /\ UNCHANGED <<worldVars, snapVars, nres, cascVars, shutVars, rs, rn, ex>>

\* lxContainer.Wait(lxc.STOPPED, -1*time.Second)
WatchWaitStopped2(c) ==
    /\ watch.w[c].pc = "wait3"
    /\ ~running[c]
    /\ watch' = [watch EXCEPT !.w[c].pc = "check",
                              !.w[c].obs = Append(watch.w[c].obs, "stopped")]
    /\ UNCHANGED <<worldVars, snapVars, nres, cascVars, shutVars, rs, rn, ex>>

\* _, err = dbContainerIDGet(d.db, c.NameGet()); if err != nil { return }
WatchCheck(c) ==
    /\ watch.w[c].pc = "check"
    /\ \E ok \in BOOLEAN :
         IF ok /\ NameExists(c)
         THEN watch' = [watch EXCEPT !.w[c].pc = "delete", !.w[c].sawRecord = TRUE]
         ELSE watch' = [watch EXCEPT !.w[c].pc = "exit"]
    /\ UNCHANGED <<worldVars, snapVars, nres, cascVars, shutVars, rs, rn, ex>>

\* c.Delete()
WatchDelete(c) ==
    /\ watch.w[c].pc = "delete"
    /\ Delete(c)
    /\ watch' = [watch EXCEPT !.w[c].pc = "exit", !.w[c].deleted = TRUE]
    /\ UNCHANGED <<nextId, running, snapVars, nres, cascVars, shutVars, rs, rn, ex>>

\* the runtime: a container stops, or is started again
ContainerStops(c) ==
    /\ running[c]
    /\ running' = [running EXCEPT ![c] = FALSE]
    /\ UNCHANGED <<containers, nextId, snapDirs, stateDirs, snapVars, nres, cascVars,
                   shutVars, lifeVars>>

ContainerStarts(c) ==
    /\ ~running[c]
    /\ NameExists(c)
    /\ running' = [running EXCEPT ![c] = TRUE]
    /\ UNCHANGED <<containers, nextId, snapDirs, stateDirs, snapVars, nres, cascVars,
                   shutVars, lifeVars>>

\* a stopped container is deleted by a request of its owner
ContainerDeleted(c) ==
    /\ ~running[c]
    /\ NameExists(c)
    /\ Delete(c)
    /\ UNCHANGED <<nextId, running, snapVars, nres, cascVars, shutVars, lifeVars>>

WatchInit ==
    /\ \E eph \in [WatchNames -> BOOLEAN] :
          containers = {[Row(k, <<Letters[k]>>, cTypeRegular) EXCEPT
                            !.ephemeral = eph[<<Letters[k]>>]] : k \in 1..NumWatched}
                       \cup {Row(10, SnapName(<<"a">>, 0), cTypeSnapshot)}
    /\ nextId = 20
    /\ running \in [WatchNames -> BOOLEAN]
    /\ snapDirs = {SnapName(<<"a">>, 0)}
    /\ stateDirs = {}
    /\ tasks = <<>>
    /\ listed = NoListing
    /\ nres = -1
    /\ casc = IdleCasc
    /\ parentDir = TRUE
    /\ fsKind = "dir"
    /\ containers0 = {}
    /\ snapDirs0 = {}
    /\ sd = IdleSd
    /\ gpc = <<>>
    /\ wg = 0
    /\ hist = <<>>
    /\ rs = IdleRs
    /\ watch = [IdleWatch EXCEPT !.w = [c \in WatchNames |-> NoWatcher]]
    /\ rn = IdleRn
    /\ ex = IdleEx

WatchNext ==
    \/ WatchList
    \/ WatchLoop
    \/ \E c \in WatchNames : WatchGet(c)
    \/ \E c \in WatchNames : WatchWaitStopped1(c)
    \/ \E c \in WatchNames : WatchWaitRunning(c)
    \/ \E c \in WatchNames : WatchWaitStopped2(c)
    \/ \E c \in WatchNames : WatchCheck(c)
    \/ \E c \in WatchNames : WatchDelete(c)
    \/ \E c \in WatchNames : ContainerStops(c)
    \/ \E c \in WatchNames : ContainerStarts(c)
    \/ \E c \in WatchNames : ContainerDeleted(c)

SpecWatch == WatchInit /\ [][WatchNext]_vars

\* C13: the watcher deletes only after its Waits returned stopped, then
\* running or the timeout, then stopped, and only if the row was still
\* there; a container restarted within the window is kept until it has
\* stopped again, and one that stays stopped with its row is deleted.
WatcherDeletesAfterSecondStop ==
    \A c \in WatchNames :
        LET w == watch.w[c]
        IN  /\ w.pc # "none" => (w.ephemeral /\ w.wasRunning)
            /\ w.pc = "delete" \/ w.deleted =>
                  /\ Len(w.obs) = 3
                  /\ w.obs[1] = "stopped"
                  /\ w.obs[2] \in {"running", "timeout"}
                  /\ w.obs[3] = "stopped"
                  /\ w.sawRecord
            /\ (Len(w.obs) = 2 /\ w.obs[2] = "running") => ~w.deleted
            /\ (w.pc = "exit" /\ Len(w.obs) = 3 /\ w.sawRecord) => w.deleted

\* a watcher that saw the restart and deleted after the second stop, and
\* one that deleted after the timeout
WatcherDeletedAfterRestart ==
    \E c \in WatchNames :
        /\ watch.w[c].deleted
        /\ watch.w[c].obs = <<"stopped", "running", "stopped">>
        /\ ~NameExists(c)

(***************************************************************************)
(* Listing: containerSnapshotsGet on a table at rest                       *)
(***************************************************************************)
ListParents == {web, webx, <<"n", "o">>}

ListInit ==
    /\ \E present \in BOOLEAN, K \in SUBSET (0..(MaxListed - 1)) :
          containers = {Row(2, webx, cTypeRegular), Row(3, SnapName(webx, 7), cTypeSnapshot)}
                       \cup (IF present THEN {Row(1, web, cTypeRegular)} ELSE {})
                       \cup {Row(4 + k, SnapName(web, k), cTypeSnapshot) : k \in K}
    /\ nextId = 20
    /\ running = [c \in {web, webx} |-> FALSE]
    /\ snapDirs = {r.name : r \in {c \in containers : c.ctype = cTypeSnapshot}}
    /\ stateDirs \in SUBSET snapDirs
    /\ tasks = <<>>
    /\ listed = NoListing
    /\ nres = -1
    /\ casc = IdleCasc
    /\ parentDir = TRUE
    /\ fsKind = "dir"
    /\ containers0 = {}
    /\ snapDirs0 = {}
    /\ sd = IdleSd
    /\ gpc = <<>>
    /\ wg = 0
    /\ hist = <<>>
    /\ LifeIdle

ListNext ==
    \E cname \in ListParents, recursion \in 0..MaxRecursion :
        containerSnapshotsGet(cname, recursion)

SpecList == ListInit /\ [][ListNext]_vars

Entries == {listed.result[i] : i \in 1..Len(listed.result)}

\* the Snapshot rows named <parent><delimiter>...
SnapshotsOf(parent) ==
    {r \in containers :
        /\ r.ctype = cTypeSnapshot
        /\ Len(r.name) >= Len(parent) + 1
        /\ SubSeq(r.name, 1, Len(parent)) = parent
        /\ r.name[Len(parent) + 1] = "/"}

\* C14: a listing answers NotFound exactly when the parent has no row;
\* a successful one has one entry per loaded Snapshot row of the parent and
\* nothing else: reference strings at recursion 0, {name, stateful} bodies
\* above, stateful telling whether the state directory exists.
ListingMatchesRows ==
    /\ listed.status = "NotFound" <=> (listed.status # "none" /\ ~NameExists(listed.parent))
    /\ listed.status = "ok" =>
          /\ listed.names \subseteq {r.name : r \in SnapshotsOf(listed.parent)}
          /\ Len(listed.result) = Cardinality(listed.names)
          /\ listed.recursion = 0 =>
                Entries = {SnapshotURL(listed.parent, n) : n \in listed.names}
          /\ listed.recursion >= 1 =>
                Entries = {[name |-> n, stateful |-> n \in stateDirs] : n \in listed.names}

\* a recursive listing of web that skipped one snapshot and returned the
\* other, which has a state directory
ListedOneSkippedOne ==
    /\ listed.status = "ok"
    /\ listed.parent = web
    /\ listed.recursion = 1
    /\ Cardinality(SnapshotsOf(web)) = 2
    /\ Len(listed.result) = 1
    /\ listed.result[1].stateful

(***************************************************************************)
(* Rename: snapshotHandler (POST) and the task of snapshotPost             *)
(***************************************************************************)
Leaves == {<<"s", "n", "a", "p", "0">>, <<"s", "n", "a", "p", "1">>, <<"x">>}

\* request bodies: undecodable, without a "name", or with one
Bodies ==
    {[decodes |-> FALSE, hasName |-> FALSE, name |-> <<>>],
     [decodes |-> TRUE, hasName |-> FALSE, name |-> <<>>]}
    \cup {[decodes |-> TRUE, hasName |-> TRUE, name |-> l] : l \in Leaves}

\* snapshotPost with the new name left as the bare leaf
snapshotPost_LeafOnly(body, sc, containerName) ==
    IF ~body.decodes \/ ~body.hasName
    THEN rn' = [rn EXCEPT !.resp = "BadRequest"]
    ELSE rn' = [resp |-> "Task",
                tasks |-> Append(rn.tasks,
                     [pc |-> "pending", old |-> sc.name,
                      parent |-> containerName, leaf |-> body.name,
                      new |-> body.name])]

\* snapshotPost: decodes the body and queues the rename of sc to
\* containerName + delimiter + newName
snapshotPost(body, sc, containerName) ==
    IF ~body.decodes \/ ~body.hasName
    THEN rn' = [rn EXCEPT !.resp = "BadRequest"]
    ELSE rn' = [resp |-> "Task",
                tasks |-> Append(rn.tasks,
                     [pc |-> "pending", old |-> sc.name,
                      parent |-> containerName, leaf |-> body.name,
                      new |-> containerName \o SnapshotDelimiter \o body.name])]

\* snapshotHandler for POST: loads containerName/snapshotName first
snapshotHandler(containerName, snapshotName, body) ==
    /\ Len(rn.tasks) < MaxRenames
    /\ LET full == containerName \o SnapshotDelimiter \o snapshotName
       IN  \E ok \in BOOLEAN :
              IF ~NameExists(full) THEN rn' = [rn EXCEPT !.resp = "NotFound"]
              ELSE IF ~ok THEN rn' = [rn EXCEPT !.resp = "error"]
              ELSE snapshotPost(body, CHOOSE r \in containers : r.name = full,
                                containerName)
    /\ UNCHANGED <<worldVars, snapVars, nres, cascVars, shutVars, rs, watch, ex>>

\* sc.Rename(newName): renames the record named sc.name in place and moves
\* its location; fails if no record has that name or the new name is taken
Rename(t) ==
    /\ rn.tasks[t].pc = "pending"
    /\ LET old == rn.tasks[t].old
           new == rn.tasks[t].new
           moved(D) == IF old \in D THEN (D \ {old}) \cup {new} ELSE D
       IN  \E ok \in BOOLEAN :
              IF ok /\ NameExists(old) /\ ~NameExists(new)
              THEN /\ containers' = {IF r.name = old THEN [r EXCEPT !.name = new] ELSE r :
                                        r \in containers}
                   /\ snapDirs' = moved(snapDirs)
                   /\ stateDirs' = moved(stateDirs)
                   /\ rn' = [rn EXCEPT !.tasks[t].pc = "done"]
              ELSE /\ rn' = [rn EXCEPT !.tasks[t].pc = "failed"]
                   /\ UNCHANGED <<containers, snapDirs, stateDirs>>
    /\ UNCHANGED <<nextId, running, snapVars, nres, cascVars, shutVars, rs, watch, ex>>

RenameInit ==
    /\ \E K \in SUBSET (0..1) :
          containers = {Row(1, web, cTypeRegular), Row(2, webx, cTypeRegular),
                        Row(3, SnapName(webx, 0), cTypeSnapshot)}
                       \cup {Row(4 + k, SnapName(web, k), cTypeSnapshot) : k \in K}
    /\ nextId = 20
    /\ running = [c \in {web, webx} |-> FALSE]
    /\ snapDirs = {r.name : r \in {c \in containers : c.ctype = cTypeSnapshot}}
    /\ stateDirs \in SUBSET (snapDirs \ {SnapName(webx, 0)})
    /\ tasks = <<>>
    /\ listed = NoListing
    /\ nres = -1
    /\ casc = IdleCasc
    /\ parentDir = TRUE
    /\ fsKind = "dir"
    /\ containers0 = {}
    /\ snapDirs0 = {}
    /\ sd = IdleSd
    /\ gpc = <<>>
    /\ wg = 0
    /\ hist = <<>>
    /\ LifeIdle

RenameNext ==
    \/ \E containerName \in {web, webx}, snapshotName \in Leaves, body \in Bodies :
          snapshotHandler(containerName, snapshotName, body)
    \/ \E t \in 1..Len(rn.tasks) : Rename(t)

SpecRename == RenameInit /\ [][RenameNext]_vars

\* C15: a rename request of a missing snapshot answers NotFound and queues
\* nothing; a rename task that succeeds changes the one record of the
\* snapshot to <parent>/<new>, same id and type, leaves every other record
\* alone, and the parent's snapshots then include <new> and not <old>.
RenameInPlace ==
    [][/\ \A containerName \in {web, webx}, snapshotName \in Leaves :
             (/\ ~NameExists(containerName \o <<"/">> \o snapshotName)
              /\ \E body \in Bodies : snapshotHandler(containerName, snapshotName, body))
                => (rn'.resp = "NotFound" /\ rn'.tasks = rn.tasks)
       /\ Len(rn'.tasks) # Len(rn.tasks) =>
             /\ rn'.resp = "Task"
             /\ Len(rn'.tasks) = Len(rn.tasks) + 1
             /\ NameExists(rn'.tasks[Len(rn'.tasks)].old)
       /\ \A t \in 1..Len(rn.tasks) :
             (rn.tasks[t].pc = "pending" /\ rn'.tasks[t].pc = "done") =>
                LET tk == rn.tasks[t]
                    want == tk.parent \o <<"/">> \o tk.leaf
                IN  \E r \in containers :
                       /\ r.name = tk.old
                       /\ containers' = (containers \ {r}) \cup {[r EXCEPT !.name = want]}
                       /\ Cardinality(containers') = Cardinality(containers)
                       /\ want \in {q.name : q \in SnapshotsOf(tk.parent)'}
                       /\ tk.old \notin {q.name : q \in SnapshotsOf(tk.parent)'}
      ]_vars

\* a rename of web/snap0 to x has succeeded and a request for a missing
\* snapshot was answered NotFound
RenamedAndRefused ==
    /\ rn.resp = "NotFound"
    /\ \E t \in 1..Len(rn.tasks) : rn.tasks[t].pc = "done" /\ rn.tasks[t].leaf = <<"x">>
    /\ \E r \in containers : r.id = 4 /\ r.name = web \o <<"/", "x">>

(***************************************************************************)
(* Archive Exporter: ExportToTar and tarStoreFile                          *)
(***************************************************************************)
\* c.PathGet(""): the container's directory, without a trailing separator
cDir == <<"/", "w">>

MetadataYaml == <<"m", "e", "t", "a", "d", "a", "t", "a", ".", "y", "a", "m", "l">>
Rootfs == <<"r", "o", "o", "t", "f", "s">>
Templates == <<"t", "e", "m", "p", "l", "a", "t", "e", "s">>

\* filepath.Join of a clean directory and a name
Join(dir, name) == dir \o <<"/">> \o name

\* strings.HasPrefix
HasPrefix(str, prefix) ==
    Len(str) >= Len(prefix) /\ SubSeq(str, 1, Len(prefix)) = prefix

\* the container's id map: host ids HostBase .. HostBase+MapRange-1 are the
\* ids 0 .. MapRange-1 of the container
IdMap == [hostid |-> 1000, nsid |-> 0, maprange |-> 10]

\* c.idmapset.ShiftFromNs(uid, gid): -1, -1 when either id is not mapped
ShiftFromNs(uid, gid) ==
    LET shift(id) == IF id >= IdMap.hostid /\ id < IdMap.hostid + IdMap.maprange
                     THEN id - IdMap.hostid + IdMap.nsid ELSE -1
    IN  IF shift(uid) = -1 \/ shift(gid) = -1 THEN <<-1, -1>> ELSE <<shift(uid), shift(gid)>>

\* what Lstat and GetFileStat tell about a file
File(path, mode, size, uid, ino, nlink) ==
    [path |-> path, mode |-> mode, size |-> size, uid |-> uid, gid |-> IdMap.hostid,
     ino |-> ino, nlink |-> nlink]

\* the files below the container's directory, each tree in the lexical
\* order filepath.Walk visits it
MetadataFile == File(Join(cDir, MetadataYaml), "reg", 2, 0, 1, 1)

RootfsTree(owner) ==
    <<File(Join(cDir, Rootfs), "dir", 4, owner, 2, 2)>>
    \o [k \in 1..NumLinks |->
           File(Join(Join(cDir, Rootfs), <<Letters[k]>>), "reg", 1, owner, 7, NumLinks)]
    \o <<File(Join(Join(cDir, Rootfs), <<"s">>), "symlink", 1, owner, 8, 1)>>

TemplatesTree ==
    <<File(Join(cDir, Templates), "dir", 4, 0, 9, 2),
      File(Join(Join(cDir, Templates), <<"t">>), "reg", 1, 0, 10, 1)>>

\* the failures one call of tarStoreFile can meet
Faults == {"none", "readlink", "stat", "header", "open", "copy"}
\* tw.WriteHeader(hdr): fails once the writer has failed, when the previous
\* entry is still owed bytes, or when the stream fails; else the header is
\* written and the writer expects hdr.size bytes
WriteHeader(tw, hdr, fails) ==
    IF tw.err \/ tw.nb > 0 \/ fails
    THEN [tw EXCEPT !.err = TRUE]
    ELSE [tw EXCEPT !.nb = hdr.size, !.archive = Append(tw.archive, hdr)]

\* io.Copy(tw, f): the file's bytes become the content of the last entry
Copy(tw, size) ==
    [tw EXCEPT !.nb = tw.nb - size,
               !.archive[Len(tw.archive)].content = size]

\* tarStoreFile with a hardlink's header keeping the file's size
tarStoreFile_LinkKeepsSize(linkmap, offset, tw, path, fi, privileged, fault) ==
    LET name == SubSeq(path, offset + 1, Len(path))
        size == IF fi.mode \in {"dir", "symlink"} THEN 0 ELSE fi.size
        shifted == ShiftFromNs(fi.uid, fi.gid)
        remap == ~privileged /\ HasPrefix(name, <<"/">> \o Rootfs)
        seen == fi.mode = "reg" /\ fi.nlink > 1 /\ fi.ino \in DOMAIN linkmap
        first == fi.mode = "reg" /\ fi.nlink > 1 /\ fi.ino \notin DOMAIN linkmap
        hdr == [name |-> name,
                type |-> IF seen THEN "link" ELSE fi.mode,
                linkname |-> IF seen THEN linkmap[fi.ino] ELSE <<>>,
                size |-> size,
                uid |-> IF remap THEN shifted[1] ELSE fi.uid,
                gid |-> IF remap THEN shifted[2] ELSE fi.gid,
                ino |-> fi.ino, content |-> 0]
        lm == IF first THEN (fi.ino :> name) @@ linkmap ELSE linkmap
        tw1 == WriteHeader(tw, hdr, fault = "header")
    IN  IF fi.mode = "symlink" /\ fault = "readlink"
        THEN [err |-> "readlink", tw |-> tw, linkmap |-> linkmap]
        ELSE IF fault = "stat"
        THEN [err |-> "stat", tw |-> tw, linkmap |-> linkmap]
        ELSE IF remap /\ shifted[1] = -1
        THEN [err |-> "none", tw |-> tw, linkmap |-> linkmap]
        ELSE IF tw1.err
        THEN [err |-> "header", tw |-> tw1, linkmap |-> lm]
        ELSE IF hdr.type = "reg" /\ fault = "open"
        THEN [err |-> "open", tw |-> tw1, linkmap |-> lm]
        ELSE IF hdr.type = "reg" /\ fault = "copy"
        THEN [err |-> "copy", tw |-> tw1, linkmap |-> lm]
        ELSE IF hdr.type = "reg"
        THEN [err |-> "none", tw |-> Copy(tw1, fi.size), linkmap |-> lm]
        ELSE [err |-> "none", tw |-> tw1, linkmap |-> lm]

\* tarStoreFile: one entry for the file at path; the result carries the
\* error returned, the writer and the link map afterwards
tarStoreFile(linkmap, offset, tw, path, fi, privileged, fault) ==
    LET name == SubSeq(path, offset + 1, Len(path))
        size == IF fi.mode \in {"dir", "symlink"} THEN 0 ELSE fi.size
        shifted == ShiftFromNs(fi.uid, fi.gid)
        remap == ~privileged /\ HasPrefix(name, <<"/">> \o Rootfs)
        seen == fi.mode = "reg" /\ fi.nlink > 1 /\ fi.ino \in DOMAIN linkmap
        first == fi.mode = "reg" /\ fi.nlink > 1 /\ fi.ino \notin DOMAIN linkmap
        hdr == [name |-> name,
                type |-> IF seen THEN "link" ELSE fi.mode,
                linkname |-> IF seen THEN linkmap[fi.ino] ELSE <<>>,
                size |-> IF seen THEN 0 ELSE size,
                uid |-> IF remap THEN shifted[1] ELSE fi.uid,
                gid |-> IF remap THEN shifted[2] ELSE fi.gid,
                ino |-> fi.ino, content |-> 0]
        lm == IF first THEN (fi.ino :> name) @@ linkmap ELSE linkmap
        tw1 == WriteHeader(tw, hdr, fault = "header")
    IN  IF fi.mode = "symlink" /\ fault = "readlink"
        THEN [err |-> "readlink", tw |-> tw, linkmap |-> linkmap]
        ELSE IF fault = "stat"
        THEN [err |-> "stat", tw |-> tw, linkmap |-> linkmap]
        ELSE IF remap /\ shifted[1] = -1
        THEN [err |-> "none", tw |-> tw, linkmap |-> linkmap]
        ELSE IF tw1.err
        THEN [err |-> "header", tw |-> tw1, linkmap |-> lm]
        ELSE IF hdr.type = "reg" /\ fault = "open"
        THEN [err |-> "open", tw |-> tw1, linkmap |-> lm]
        ELSE IF hdr.type = "reg" /\ fault = "copy"
        THEN [err |-> "copy", tw |-> tw1, linkmap |-> lm]
        ELSE IF hdr.type = "reg"
        THEN [err |-> "none", tw |-> Copy(tw1, fi.size), linkmap |-> lm]
        ELSE [err |-> "none", tw |-> tw1, linkmap |-> lm]

\* ExportToTar(snap, w), up to the first file: the refusal, the writer and
\* the link map
ExportStart(label) ==
    /\ ex.pc = "idle"
    /\ IF label # "" /\ running[web]
       THEN ex' = [ex EXCEPT !.pc = "returned", !.snap = label, !.err = "running"]
       ELSE ex' = [ex EXCEPT !.pc = "metadata", !.snap = label, !.tw = NewWriter,
                             !.linkmap = <<>>]
    /\ UNCHANGED <<worldVars, snapVars, nres, cascVars, shutVars, rs, watch, rn>>

\* metadata.yaml, if it exists: an Lstat or tarStoreFile error closes the
\* writer and is returned
ExportMetadata ==
    /\ ex.pc = "metadata"
    /\ IF ~ex.hasMeta
       THEN ex' = [ex EXCEPT !.pc = "rootfs", !.walk = RootfsTree(ex.owner)]
       ELSE \E fault \in Faults \cup {"lstat"} :
               LET fi == MetadataFile
                   res == tarStoreFile(ex.linkmap, Len(cDir) + 1, ex.tw, fi.path, fi,
                                       ex.privileged, fault)
               IN  IF fault = "lstat"
                   THEN ex' = [ex EXCEPT !.pc = "returned", !.err = "lstat",
                                  !.failed = ex.failed \cup {[path |-> fi.path, kind |-> "lstat"]}]
                   ELSE IF res.err # "none"
                   THEN ex' = [ex EXCEPT !.pc = "returned", !.err = res.err,
                                  !.tw = res.tw, !.linkmap = res.linkmap,
                                  !.failed = ex.failed \cup {[path |-> fi.path, kind |-> res.err]}]
                   ELSE ex' = [ex EXCEPT !.pc = "rootfs", !.tw = res.tw,
                                  !.linkmap = res.linkmap,
                                  !.walk = RootfsTree(ex.owner)]
    /\ UNCHANGED <<worldVars, snapVars, nres, cascVars, shutVars, rs, watch, rn>>

\* filepath.Walk calls writeToTar on the next file; an error of writeToTar
\* ends this Walk
ExportWalk ==
    /\ ex.pc \in {"rootfs", "templates"}
    /\ ex.walk # <<>>
    /\ \E fault \in Faults :
          LET fi == Head(ex.walk)
              res == tarStoreFile(ex.linkmap, Len(cDir) + 1, ex.tw, fi.path, fi,
                                  ex.privileged, fault)
          IN  IF res.err # "none"
              THEN ex' = [ex EXCEPT !.walk = <<>>, !.tw = res.tw, !.linkmap = res.linkmap,
                             !.failed = ex.failed \cup {[path |-> fi.path, kind |-> res.err]}]
              ELSE ex' = [ex EXCEPT !.walk = Tail(ex.walk), !.tw = res.tw,
                             !.linkmap = res.linkmap]
    /\ UNCHANGED <<worldVars, snapVars, nres, cascVars, shutVars, rs, watch, rn>>

\* a Walk has returned; what it returned is dropped, and templates is
\* walked next if it exists
ExportWalkReturns ==
    /\ ex.pc \in {"rootfs", "templates"}
    /\ ex.walk = <<>>
    /\ IF ex.pc = "rootfs" /\ ex.hasTemplates
       THEN ex' = [ex EXCEPT !.pc = "templates", !.walk = TemplatesTree]
       ELSE ex' = [ex EXCEPT !.pc = "close"]
    /\ UNCHANGED <<worldVars, snapVars, nres, cascVars, shutVars, rs, watch, rn>>

\* return tw.Close(): an error if the writer has failed, if the last entry
\* is owed bytes, or if the trailer cannot be written
ExportClose ==
    /\ ex.pc = "close"
    /\ \E ok \in BOOLEAN :
          ex' = [ex EXCEPT !.pc = "returned",
                    !.err = IF ex.tw.err \/ ex.tw.nb > 0 \/ ~ok THEN "close" ELSE "none"]
    /\ UNCHANGED <<worldVars, snapVars, nres, cascVars, shutVars, rs, watch, rn>>

Owners == {IdMap.hostid + 3, 5}

ExportInit ==
    /\ containers = {Row(1, web, cTypeRegular)}
    /\ nextId = 20
    /\ running \in [{web} -> BOOLEAN]
    /\ snapDirs = {}
    /\ stateDirs = {}
    /\ tasks = <<>>
    /\ listed = NoListing
    /\ nres = -1
    /\ casc = IdleCasc
    /\ parentDir = TRUE
    /\ fsKind = "dir"
    /\ containers0 = {}
    /\ snapDirs0 = {}
    /\ sd = IdleSd
    /\ gpc = <<>>
    /\ wg = 0
    /\ hist = <<>>
    /\ rs = IdleRs
    /\ watch = IdleWatch
    /\ rn = IdleRn
    /\ \E privileged \in BOOLEAN, hasMeta \in BOOLEAN, hasTemplates \in BOOLEAN,
          owner \in Owners :
          ex = [IdleEx EXCEPT !.privileged = privileged, !.hasMeta = hasMeta,
                              !.hasTemplates = hasTemplates, !.owner = owner]

ExportNext ==
    \/ \E label \in {"", "s"} : ExportStart(label)
    \/ ExportMetadata
    \/ ExportWalk
    \/ ExportWalkReturns
    \/ ExportClose

SpecExport == ExportInit /\ [][ExportNext]_vars

Archive == ex.tw.archive

\* the names relative to the container's directory, tree by tree
RootfsNames ==
    <<Rootfs>> \o [k \in 1..NumLinks |-> Rootfs \o <<"/", Letters[k]>>]
               \o <<Rootfs \o <<"/", "s">>>>

TemplatesNames == <<Templates, Templates \o <<"/", "t">>>>

\* C16: an export in which an entry met an I/O or stat failure returns an
\* error.
EntryFailureFailsExport ==
    (ex.pc = "returned" /\ ex.failed # {}) => ex.err # "none"

\* C17: an export under a snapshot label of a running container returns an
\* error and writes nothing; an export that returns success has written
\* metadata.yaml if it exists, then the whole rootfs tree, then the whole
\* templates tree if it exists, under their names relative to the
\* container's directory.
ExportHasWholeTreeInOrder ==
    ex.pc = "returned" =>
        /\ (ex.snap # "" /\ running[web]) => (ex.err # "none" /\ Archive = <<>>)
        /\ ex.err = "none" =>
              [i \in 1..Len(Archive) |-> Archive[i].name] =
                 (IF ex.hasMeta THEN <<MetadataYaml>> ELSE <<>>) \o RootfsNames
                 \o (IF ex.hasTemplates THEN TemplatesNames ELSE <<>>)

\* C18: in the archive a hardlink entry has size zero and names an earlier
\* regular entry of the same inode, the first entry of an inode is never a
\* hardlink, directories and symlinks have size zero, and after a
\* successful export every regular entry holds its file's content.
HardlinksNameEarlierEntry ==
    /\ \A i \in 1..Len(Archive) :
          /\ Archive[i].type = "link" =>
                /\ Archive[i].size = 0
                /\ \E j \in 1..(i - 1) :
                      /\ Archive[j].type = "reg"
                      /\ Archive[j].name = Archive[i].linkname
                      /\ Archive[j].ino = Archive[i].ino
          /\ Archive[i].type \in {"dir", "symlink"} => Archive[i].size = 0
          /\ (\A j \in 1..(i - 1) : Archive[j].ino # Archive[i].ino) =>
                Archive[i].type # "link"
          /\ (\E j \in 1..(i - 1) : Archive[j].ino = Archive[i].ino) =>
                Archive[i].type = "link"
    /\ (ex.pc = "returned" /\ ex.err = "none") =>
          \A i \in 1..Len(Archive) :
              Archive[i].type = "reg" =>
                 (Archive[i].content = Archive[i].size /\ Archive[i].size > 0)

\* a successful export whose archive holds the file, its hardlink and the
\* symlink
ExportedWithHardlink ==
    /\ ex.pc = "returned"
    /\ ex.err = "none"
    /\ ex.failed = {}
    /\ \E i \in 1..Len(Archive) : Archive[i].type = "link"
    /\ \E i \in 1..Len(Archive) : Archive[i].type = "symlink"

\* C19: after a successful export of an unprivileged container in which no
\* file met a failure, every entry under rootfs/ carries the ids the map
\* gives for its on-disk ids, and no entry with an unmapped id is in the
\* archive.
UnprivilegedRootfsRemapped ==
    (ex.pc = "returned" /\ ex.err = "none" /\ ex.failed = {} /\ ~ex.privileged) =>
        \A i \in 1..Len(Archive) :
            HasPrefix(Archive[i].name, Rootfs) =>
                /\ ShiftFromNs(ex.owner, IdMap.hostid)[1] # -1
                /\ Archive[i].uid = ShiftFromNs(ex.owner, IdMap.hostid)[1]

====
